---- MODULE Spec2Model ----
(***************************************************************************)
(* minigrep (src/src/lib.rs): the line matcher (match_line), the search    *)
(* engine (search, format_output), the file filter (is_binary_file,        *)
(* should_search_file), the directory walk and the parallel per-file       *)
(* search with its mutex-guarded output buffer (search_recursive), and the *)
(* entry point (run).                                                      *)
(*                                                                         *)
(* Strings are sequences of one-character strings.  Three specifications:  *)
(*   MatchSpec   one call of match_line on bounded inputs                  *)
(*   SearchSpec  one call of search on bounded inputs                      *)
(*   Spec        one invocation of run: walk, filter, workers, drain       *)
(***************************************************************************)
EXTENDS Integers, Sequences, FiniteSets, TLC

VARIABLES
    query,      \* Args.query / the query argument of the call
    config,     \* SearchConfig
    line,       \* MatchSpec: the line argument of match_line
    matchRet,   \* MatchSpec: what match_line returned (NotCalled before)
    contents,   \* SearchSpec: the contents argument of search
    searchRet,  \* SearchSpec: what search returned (NotCalled before)
    root,       \* Spec: what Args.filename denotes
    mainPc,     \* Spec: position of the thread that called run
    files,      \* Spec: the Vec `files` of search_recursive (indices into root.entries)
    taken,      \* Spec: items of files.par_iter() already handed to a worker
    workerPc,   \* Spec: position of each pool thread inside the for_each closure
    cur,        \* Spec: the entry a pool thread is working on
    local,      \* Spec: file_results of a pool thread
    holders,    \* Spec: threads holding a guard of output_buffer
    buffer,     \* Spec: the VecDeque inside output_buffer
    output,     \* Spec: lines printed to stdout
    runRet      \* Spec: what run returned ("none" before it returns)

vars == <<query, config, line, matchRet, contents, searchRet, root, mainPc, files,
          taken, workerPc, cur, local, holders, buffer, output, runRet>>

(***************************************************************************)
(* Bounds of the model.                                                    *)
(***************************************************************************)
MaxQueryLen == 2
MaxLineLen == 3
MaxContentsLen == 3
MaxEntries == 2
NumWorkers == 2

(***************************************************************************)
(* Characters.                                                             *)
(***************************************************************************)
NL == "\n"
WordChars == {"a", "A"}
QueryChars == {"a", "A", ".", "*"}
LineChars == {"a", "A", "."}
ContentsChars == {"a", "A", NL}

\* The characters regex::escape puts a backslash before.
MetaChars == {"\\", ".", "+", "*", "?", "(", ")", "|", "[", "]", "{", "}", "^", "$",
              "#", "&", "-", "~"}

SeqsUpTo(S, n) == UNION {[1..k -> S] : k \in 0..n}

Ok(v) == [ok |-> TRUE, val |-> v]
Err(e) == [ok |-> FALSE, val |-> <<e>>]
NotCalled == [ok |-> FALSE, val |-> <<"not called">>]

\* char::to_lowercase on the characters of the model
LowerChar(c) == IF c = "A" THEN "a" ELSE c

\* str::to_lowercase
to_lowercase(s) == [i \in 1..Len(s) |-> LowerChar(s[i])]

\* str::contains
Contains(s, q) == \E i \in 1..(Len(s) - Len(q) + 1) : SubSeq(s, i, i + Len(q) - 1) = q

\* str::lines: pieces between line feeds; a final empty piece is not a line.
RECURSIVE LinesFrom(_, _, _)
LinesFrom(c, i, acc) ==
    IF i > Len(c) THEN (IF acc = <<>> THEN <<>> ELSE <<acc>>)
    ELSE IF c[i] = NL THEN <<acc>> \o LinesFrom(c, i + 1, <<>>)
    ELSE LinesFrom(c, i + 1, Append(acc, c[i]))

Lines(c) == LinesFrom(c, 1, <<>>)

(***************************************************************************)
(* The regex crate, as far as match_line uses it: Regex::new on the        *)
(* patterns match_line builds from queries over QueryChars, and is_match.  *)
(* A compiled pattern is a sequence of elements                            *)
(*   [kind |-> "wb"]                      \b                               *)
(*   [kind |-> "lit", ch |-> c, star]     a literal character, maybe x*    *)
(*   [kind |-> "any", star]               . , maybe .*                     *)
(* A non-capturing group holds a concatenation here (no | in QueryChars),  *)
(* so its elements are kept in line; a repetition of a whole group or of   *)
(* \b is not produced by match_line for these queries.                     *)
(***************************************************************************)
\* regex::escape
RECURSIVE RegexEscape(_)
RegexEscape(s) ==
    IF s = <<>> THEN <<>>
    ELSE (IF Head(s) \in MetaChars THEN <<"\\", Head(s)>> ELSE <<Head(s)>>)
         \o RegexEscape(Tail(s))

StarLast(prog) == [prog EXCEPT ![Len(prog)].star = TRUE]

\* Regex::new: p the pattern, i the position, prog the elements so far, depth the
\* open groups, rep whether a repetition operator has an expression to apply to.
RECURSIVE RegexParse(_, _, _, _, _)
RegexParse(p, i, prog, depth, rep) ==
    IF i > Len(p) THEN
        (IF depth = 0 THEN Ok(prog) ELSE Err("unclosed group"))
    ELSE IF p[i] = "\\" THEN
        (IF i = Len(p) THEN Err("incomplete escape sequence")
         ELSE IF p[i + 1] = "b" THEN
            RegexParse(p, i + 2, Append(prog, [kind |-> "wb", ch |-> "", star |-> FALSE]),
                       depth, FALSE)
         ELSE IF p[i + 1] \in MetaChars THEN
            RegexParse(p, i + 2,
                       Append(prog, [kind |-> "lit", ch |-> p[i + 1], star |-> FALSE]),
                       depth, TRUE)
         ELSE Err("unrecognized escape sequence"))
    ELSE IF p[i] = "(" THEN
        (IF i + 2 <= Len(p) /\ p[i + 1] = "?" /\ p[i + 2] = ":"
         THEN RegexParse(p, i + 3, prog, depth + 1, FALSE)
         ELSE Err("unsupported group"))
    ELSE IF p[i] = ")" THEN
        (IF depth = 0 THEN Err("unopened group")
         ELSE RegexParse(p, i + 1, prog, depth - 1, FALSE))
    ELSE IF p[i] = "*" THEN
        (IF rep THEN RegexParse(p, i + 1, StarLast(prog), depth, TRUE)
         ELSE Err("repetition operator missing expression"))
    ELSE IF p[i] = "." THEN
        RegexParse(p, i + 1, Append(prog, [kind |-> "any", ch |-> "", star |-> FALSE]),
                   depth, TRUE)
    ELSE
        RegexParse(p, i + 1, Append(prog, [kind |-> "lit", ch |-> p[i], star |-> FALSE]),
                   depth, TRUE)

RegexNew(pattern) == RegexParse(pattern, 1, <<>>, 0, FALSE)

\* \b at position pos of s (between s[pos-1] and s[pos]): exactly one side is a word
\* character.
IsWordBoundary(s, pos) ==
    LET before == pos > 1 /\ s[pos - 1] \in WordChars
        after == pos <= Len(s) /\ s[pos] \in WordChars
    IN before # after

ElemTakes(e, c) == IF e.kind = "any" THEN c # NL ELSE e.kind = "lit" /\ e.ch = c

\* Whether prog from element k on matches s starting at position pos.
RECURSIVE MatchAt(_, _, _, _)
MatchAt(prog, k, s, pos) ==
    IF k > Len(prog) THEN TRUE
    ELSE IF prog[k].kind = "wb" THEN
        IsWordBoundary(s, pos) /\ MatchAt(prog, k + 1, s, pos)
    ELSE IF prog[k].star THEN
        \/ MatchAt(prog, k + 1, s, pos)
        \/ pos <= Len(s) /\ ElemTakes(prog[k], s[pos]) /\ MatchAt(prog, k, s, pos + 1)
    ELSE
        pos <= Len(s) /\ ElemTakes(prog[k], s[pos]) /\ MatchAt(prog, k + 1, s, pos + 1)

\* Regex::is_match: an unanchored search.
is_match(prog, s) == \E pos \in 1..(Len(s) + 1) : MatchAt(prog, 1, s, pos)

(***************************************************************************)
(* match_line, format_output, search                                       *)
(***************************************************************************)
\* Mutant of match_line: the literal whole-word branch tests plain containment.
match_line_no_boundary(ln, q, cfg) ==
    LET line_to_check == IF cfg.ignore_case THEN to_lowercase(ln) ELSE ln
    IN IF cfg.regex THEN
          LET pattern == IF cfg.whole_word
                         THEN <<"\\", "b", "(", "?", ":">> \o q \o <<")", "\\", "b">>
                         ELSE q
              regex == RegexNew(pattern)
          IN IF regex.ok THEN Ok(is_match(regex.val, line_to_check)) ELSE regex
       ELSE Ok(Contains(line_to_check, q))

\* Mutant of match_line: the line is compared as it is, never lower-cased.
match_line_no_lowercase(ln, q, cfg) ==
    IF cfg.regex THEN
       LET pattern == IF cfg.whole_word
                      THEN <<"\\", "b", "(", "?", ":">> \o q \o <<")", "\\", "b">>
                      ELSE q
           regex == RegexNew(pattern)
       IN IF regex.ok THEN Ok(is_match(regex.val, ln)) ELSE regex
    ELSE IF cfg.whole_word THEN
       LET pattern == <<"\\", "b">> \o RegexEscape(q) \o <<"\\", "b">>
           regex == RegexNew(pattern)
       IN IF regex.ok THEN Ok(is_match(regex.val, ln)) ELSE regex
    ELSE Ok(Contains(ln, q))

match_line(ln, q, cfg) ==
    LET line_to_check == IF cfg.ignore_case THEN to_lowercase(ln) ELSE ln
    IN IF cfg.regex THEN
          LET pattern == IF cfg.whole_word
                         THEN <<"\\", "b", "(", "?", ":">> \o q \o <<")", "\\", "b">>
                         ELSE q
              regex == RegexNew(pattern)
          IN IF regex.ok THEN Ok(is_match(regex.val, line_to_check)) ELSE regex
       ELSE IF cfg.whole_word THEN
          LET pattern == <<"\\", "b">> \o RegexEscape(q) \o <<"\\", "b">>
              regex == RegexNew(pattern)
          IN IF regex.ok THEN Ok(is_match(regex.val, line_to_check)) ELSE regex
       ELSE Ok(Contains(line_to_check, q))

\* usize formatted with {}
RECURSIVE ToDecimal(_)
ToDecimal(n) ==
    LET digit == <<"0", "1", "2", "3", "4", "5", "6", "7", "8", "9">>[(n % 10) + 1]
    IN IF n < 10 THEN <<digit>> ELSE Append(ToDecimal(n \div 10), digit)

\* Mutant of format_output: the number printed is enumerate()'s index, from 0.
format_output_zero_based(line_num, ln, cfg) ==
    IF cfg.line_number THEN ToDecimal(line_num) \o <<":">> \o ln ELSE ln

format_output(line_num, ln, cfg) ==
    IF cfg.line_number THEN ToDecimal(line_num + 1) \o <<":">> \o ln ELSE ln

\* The (line_num, line) pairs search's filter_map yields Some(Ok(..)) for, in the
\* order of the scan; line_num is enumerate()'s index, from 0.
\* Mutant of SelectedPairs: invert_match is ignored.
RECURSIVE SelectedPairsNoInvert(_, _, _, _)
SelectedPairsNoInvert(ls, n, pq, cfg) ==
    IF n > Len(ls) THEN <<>>
    ELSE LET m == match_line(ls[n], pq, cfg)
         IN (IF m.ok /\ m.val THEN <<<<n - 1, ls[n]>>>> ELSE <<>>)
            \o SelectedPairsNoInvert(ls, n + 1, pq, cfg)

RECURSIVE SelectedPairs(_, _, _, _)
SelectedPairs(ls, n, pq, cfg) ==
    IF n > Len(ls) THEN <<>>
    ELSE LET m == match_line(ls[n], pq, cfg)
         IN (IF m.ok /\ (m.val # cfg.invert_match) THEN <<<<n - 1, ls[n]>>>> ELSE <<>>)
            \o SelectedPairs(ls, n + 1, pq, cfg)

\* Mutant of search: a line whose match_line fails is skipped (Err(_) => None).
search_skipping_errors(q, c, cfg) ==
    LET processed_query == IF cfg.ignore_case THEN to_lowercase(q) ELSE q
        pairs == SelectedPairs(Lines(c), 1, processed_query, cfg)
    IN Ok([i \in 1..Len(pairs) |-> format_output(pairs[i][1], pairs[i][2], cfg)])

search(q, c, cfg) ==
    LET processed_query == IF cfg.ignore_case THEN to_lowercase(q) ELSE q
        ls == Lines(c)
        failed == {n \in 1..Len(ls) : ~match_line(ls[n], processed_query, cfg).ok}
    IN IF failed # {}
       THEN \* collect::<Result<Vec<_>, _>>() stops at the first Err and returns it
            match_line(ls[CHOOSE n \in failed : \A k \in failed : n <= k],
                       processed_query, cfg)
       ELSE LET pairs == SelectedPairs(ls, 1, processed_query, cfg)
            IN Ok([i \in 1..Len(pairs) |-> format_output(pairs[i][1], pairs[i][2], cfg)])

Configs == [ignore_case : BOOLEAN, line_number : BOOLEAN, invert_match : BOOLEAN,
            whole_word : BOOLEAN, regex : BOOLEAN]

Queries == SeqsUpTo(QueryChars, MaxQueryLen)

\* search's processed_query
ProcessedQuery(q, cfg) == IF cfg.ignore_case THEN to_lowercase(q) ELSE q

\* The 1-based positions of the lines search selects.
SelectedPositions(q, c, cfg) ==
    LET pairs == SelectedPairs(Lines(c), 1, ProcessedQuery(q, cfg), cfg)
    IN {pairs[i][1] + 1 : i \in 1..Len(pairs)}

(***************************************************************************)
(* Values of the variables a specification does not use.                   *)
(***************************************************************************)
NoRoot == [kind |-> "none", entries |-> <<>>]

MatchUnused == line = <<>> /\ matchRet = NotCalled

SearchUnused == contents = <<>> /\ searchRet = NotCalled

RunUnused ==
    /\ root = NoRoot
    /\ mainPc = "idle"
    /\ files = <<>>
    /\ taken = {}
    /\ workerPc = [w \in 1..NumWorkers |-> "idle"]
    /\ cur = [w \in 1..NumWorkers |-> 0]
    /\ local = [w \in 1..NumWorkers |-> <<>>]
    /\ holders = {}
    /\ buffer = <<>>
    /\ output = <<>>
    /\ runRet = "none"

runVars == <<root, mainPc, files, taken, workerPc, cur, local, holders, buffer, output,
             runRet>>

(***************************************************************************)
(* MatchSpec: one call of match_line.  search is its only caller, so the   *)
(* query it receives is a processed query.                                 *)
(***************************************************************************)
MatchInit ==
    /\ config \in Configs
    /\ query \in {ProcessedQuery(q, config) : q \in Queries}
    /\ line \in SeqsUpTo(LineChars, MaxLineLen)
    /\ matchRet = NotCalled
    /\ SearchUnused
    /\ RunUnused

CallMatchLine ==
    /\ matchRet = NotCalled
    /\ matchRet' = match_line(line, query, config)
    /\ UNCHANGED <<query, config, line, contents, searchRet>>
    /\ UNCHANGED runVars

MatchNext == CallMatchLine

MatchSpec == MatchInit /\ [][MatchNext]_vars

(***************************************************************************)
(* SearchSpec: one call of search.                                         *)
(***************************************************************************)
SearchInit ==
    /\ config \in Configs
    /\ query \in Queries
    /\ contents \in SeqsUpTo(ContentsChars, MaxContentsLen)
    /\ searchRet = NotCalled
    /\ MatchUnused
    /\ RunUnused

CallSearch ==
    /\ searchRet = NotCalled
    /\ searchRet' = search(query, contents, config)
    /\ UNCHANGED <<query, config, line, matchRet, contents>>
    /\ UNCHANGED runVars

SearchNext == CallSearch

SearchSpec == SearchInit /\ [][SearchNext]_vars

(***************************************************************************)
(* The file system as run sees it.  An entry of the walk is a record:      *)
(*   type         "file", "dir", or "error" (WalkDir yielded an Err)       *)
(*   dotName      the entry's file name starts with '.'                    *)
(*   underDotDir  a directory between the root and the entry has such a    *)
(*                name                                                     *)
(*   metaOk       fs::metadata(path) succeeds                              *)
(*   size         metadata.len()                                           *)
(*   openOk       File::open and the read of the prefix succeed            *)
(*   firstNul     offset (from 1) of the first NUL byte, 0 when none       *)
(*   readOk       read_to_string(path) succeeds                            *)
(*   text         what read_to_string returns                              *)
(* The two probes and the later read are separate system calls, so their   *)
(* outcomes are independent.  A path is the entry's index in root.entries. *)
(***************************************************************************)
PrefixLen == 1024

SizeLimit == 10 * 1024 * 1024

Workers == 1..NumWorkers

\* The thread that called run.
MainThread == NumWorkers + 1

RunQueries == {<<"a">>, <<"*">>}

RunConfigs == {c \in Configs : ~c.ignore_case /\ ~c.whole_word /\ c.line_number}

Texts == {<<"a">>, <<"A", NL, "a">>}

Plain(t) ==
    [type |-> "file", dotName |-> FALSE, underDotDir |-> FALSE, metaOk |-> TRUE,
     size |-> 2 * PrefixLen, openOk |-> TRUE, firstNul |-> 0, readOk |-> TRUE, text |-> t]

EntryKinds ==
    LET p == Plain(<<"A", NL, "a">>)
    IN {Plain(t) : t \in Texts}
       \cup {[p EXCEPT !.size = SizeLimit], [p EXCEPT !.size = SizeLimit + 1]}
       \cup {[p EXCEPT !.firstNul = PrefixLen], [p EXCEPT !.firstNul = PrefixLen + 1]}
       \cup {[p EXCEPT !.metaOk = FALSE, !.size = SizeLimit + 1]}
       \cup {[p EXCEPT !.metaOk = FALSE, !.openOk = FALSE]}
       \cup {[p EXCEPT !.openOk = FALSE], [p EXCEPT !.readOk = FALSE]}
       \cup {[p EXCEPT !.type = "dir", !.dotName = TRUE], [p EXCEPT !.underDotDir = TRUE]}
       \cup {[p EXCEPT !.type = "error"]}

Roots ==
    {[kind |-> "dir", entries |-> es] : es \in SeqsUpTo(EntryKinds, MaxEntries)}
    \cup {[kind |-> "file", entries |-> <<e>>] : e \in {k \in EntryKinds : k.type = "file"}}
    \cup {[kind |-> "missing", entries |-> <<>>]}

PathName(i) == <<"f">> \o ToDecimal(i)

(***************************************************************************)
(* is_binary_file, should_search_file, the walk of search_recursive,       *)
(* search_in_file                                                          *)
(***************************************************************************)
Min(a, b) == IF a <= b THEN a ELSE b

\* file.read on a regular file fills the buffer up to the end of the file.
is_binary_file(e) ==
    IF ~e.openOk THEN Err("io")
    ELSE LET bytes_read == Min(PrefixLen, e.size)
         IN Ok(e.firstNul # 0 /\ e.firstNul <= bytes_read)

should_search_file(e) ==
    IF e.metaOk /\ e.size > SizeLimit THEN FALSE
    ELSE LET b == is_binary_file(e) IN IF b.ok THEN ~b.val ELSE FALSE

\* The closure given to filter_entry; an entry below a directory it rejects is never
\* visited.
filter_entry(e) ==
    /\ ~e.underDotDir
    /\ (e.type = "dir" => ~e.dotName)

\* The chain of filters that builds `files`.
Eligible(e) == filter_entry(e) /\ e.type = "file" /\ should_search_file(e)

RECURSIVE WalkFrom(_, _)
WalkFrom(es, i) ==
    IF i > Len(es) THEN <<>>
    ELSE (IF Eligible(es[i]) THEN <<i>> ELSE <<>>) \o WalkFrom(es, i + 1)

search_in_file(e, q, cfg) == IF e.readOk THEN search(q, e.text, cfg) ELSE Err("io")

RECURSIVE Printed(_)
Printed(buf) ==
    IF buf = <<>> THEN <<>>
    ELSE <<<<"In file: ">> \o PathName(Head(buf)[1])>> \o Head(buf)[2] \o Printed(Tail(buf))

(***************************************************************************)
(* Spec: one invocation of run.                                            *)
(***************************************************************************)
Init ==
    /\ query \in RunQueries
    /\ config \in RunConfigs
    /\ root \in Roots
    /\ mainPc = "start"
    /\ files = <<>>
    /\ taken = {}
    /\ workerPc = [w \in Workers |-> "idle"]
    /\ cur = [w \in Workers |-> 0]
    /\ local = [w \in Workers |-> <<>>]
    /\ holders = {}
    /\ buffer = <<>>
    /\ output = <<>>
    /\ runRet = "none"
    /\ MatchUnused
    /\ SearchUnused

callVars == <<line, matchRet, contents, searchRet>>

\* run, path.is_dir() false: search_in_file(path, ..)?; its Vec is dropped.
RunFile ==
    /\ mainPc = "start"
    /\ root.kind # "dir"
    /\ LET r == IF root.kind = "file" THEN search_in_file(root.entries[1], query, config)
                ELSE Err("io")
       IN runRet' = IF r.ok THEN "Ok" ELSE "Err"
    /\ mainPc' = "done"
    /\ UNCHANGED <<query, config, root, files, taken, workerPc, cur, local, holders,
                   buffer, output>>
    /\ UNCHANGED callVars

\* run, path.is_dir(): search_recursive up to files.par_iter()
Walk ==
    /\ mainPc = "start"
    /\ root.kind = "dir"
    /\ files' = WalkFrom(root.entries, 1)
    /\ mainPc' = "dispatch"
    /\ UNCHANGED <<query, config, root, taken, workerPc, cur, local, holders, buffer,
                   output, runRet>>
    /\ UNCHANGED callVars

\* Mutant of Take: the thread locks output_buffer before it calls search_in_file.
TakeHoldingLock(w) ==
    /\ mainPc = "dispatch"
    /\ workerPc[w] = "idle"
    /\ holders = {}
    /\ holders' = {w}
    /\ \E i \in (1..Len(files)) \ taken :
        /\ taken' = taken \cup {i}
        /\ cur' = [cur EXCEPT ![w] = i]
    /\ workerPc' = [workerPc EXCEPT ![w] = "search"]
    /\ UNCHANGED <<query, config, root, mainPc, files, local, buffer, output, runRet>>
    /\ UNCHANGED <<line, matchRet, contents, searchRet>>

\* A pool thread is handed one item of files.par_iter().
Take(w) ==
    /\ mainPc = "dispatch"
    /\ workerPc[w] = "idle"
    /\ \E i \in (1..Len(files)) \ taken :
        /\ taken' = taken \cup {i}
        /\ cur' = [cur EXCEPT ![w] = i]
    /\ workerPc' = [workerPc EXCEPT ![w] = "search"]
    /\ UNCHANGED <<query, config, root, mainPc, files, local, holders, buffer, output,
                   runRet>>
    /\ UNCHANGED callVars

\* Mutant of SearchInFile: the test !file_results.is_empty() is missing.
SearchInFileKeepEmpty(w) ==
    /\ workerPc[w] = "search"
    /\ LET r == search_in_file(root.entries[files[cur[w]]], query, config)
       IN IF r.ok
          THEN /\ local' = [local EXCEPT ![w] = r.val]
               /\ workerPc' = [workerPc EXCEPT ![w] = "lock"]
               /\ cur' = cur
          ELSE /\ local' = local
               /\ workerPc' = [workerPc EXCEPT ![w] = "idle"]
               /\ cur' = [cur EXCEPT ![w] = 0]
    /\ UNCHANGED <<query, config, root, mainPc, files, taken, holders, buffer, output,
                   runRet>>
    /\ UNCHANGED <<line, matchRet, contents, searchRet>>

\* The closure up to the lock: search_in_file and the two ifs.
SearchInFile(w) ==
    /\ workerPc[w] = "search"
    /\ LET r == search_in_file(root.entries[files[cur[w]]], query, config)
       IN IF r.ok /\ r.val # <<>>
          THEN /\ local' = [local EXCEPT ![w] = r.val]
               /\ workerPc' = [workerPc EXCEPT ![w] = "lock"]
               /\ cur' = cur
          ELSE /\ local' = local
               /\ workerPc' = [workerPc EXCEPT ![w] = "idle"]
               /\ cur' = [cur EXCEPT ![w] = 0]
    /\ UNCHANGED <<query, config, root, mainPc, files, taken, holders, buffer, output,
                   runRet>>
    /\ UNCHANGED callVars

\* output_buffer.lock() in the closure
Lock(w) ==
    /\ workerPc[w] = "lock"
    /\ holders = {}
    /\ holders' = {w}
    /\ workerPc' = [workerPc EXCEPT ![w] = "push"]
    /\ UNCHANGED <<query, config, root, mainPc, files, taken, cur, local, buffer, output,
                   runRet>>
    /\ UNCHANGED callVars

\* buffer.push_back(..), then the guard is dropped at the end of the block.
Push(w) ==
    /\ workerPc[w] = "push"
    /\ buffer' = Append(buffer, <<files[cur[w]], local[w]>>)
    /\ holders' = holders \ {w}
    /\ workerPc' = [workerPc EXCEPT ![w] = "idle"]
    /\ cur' = [cur EXCEPT ![w] = 0]
    /\ local' = [local EXCEPT ![w] = <<>>]
    /\ UNCHANGED <<query, config, root, mainPc, files, taken, output, runRet>>
    /\ UNCHANGED callVars

AllWorkersDone == taken = 1..Len(files) /\ \A w \in Workers : workerPc[w] = "idle"

\* for_each has returned; output_buffer.lock() of the calling thread.
MainLock ==
    /\ mainPc = "dispatch"
    /\ AllWorkersDone
    /\ holders = {}
    /\ holders' = {MainThread}
    /\ mainPc' = "drain"
    /\ UNCHANGED <<query, config, root, files, taken, workerPc, cur, local, buffer,
                   output, runRet>>
    /\ UNCHANGED callVars

\* The printing loop, the drop of the guard, Ok(()) through run.
Drain ==
    /\ mainPc = "drain"
    /\ output' = Printed(buffer)
    /\ holders' = holders \ {MainThread}
    /\ runRet' = "Ok"
    /\ mainPc' = "done"
    /\ UNCHANGED <<query, config, root, files, taken, workerPc, cur, local, buffer>>
    /\ UNCHANGED callVars

WorkerStep == \E w \in Workers : Take(w) \/ SearchInFile(w) \/ Lock(w) \/ Push(w)

Next == RunFile \/ Walk \/ WorkerStep \/ MainLock \/ Drain

Spec == Init /\ [][Next]_vars

(***************************************************************************)
(* Helpers of the properties.                                              *)
(***************************************************************************)
IsWordOnly(q) == \A i \in 1..Len(q) : q[i] \in WordChars

\* s holds an occurrence of q with no word character right before or right after it.
WholeWordOccurs(s, q) ==
    \E i \in 1..(Len(s) - Len(q) + 1) :
        /\ SubSeq(s, i, i + Len(q) - 1) = q
        /\ (i = 1 \/ s[i - 1] \notin WordChars)
        /\ (i + Len(q) - 1 = Len(s) \/ s[i + Len(q)] \notin WordChars)

\* The letter of the other case.
SwapCase(c) == IF c = "a" THEN "A" ELSE IF c = "A" THEN "a" ELSE c

\* The strings that differ from s in the case of one letter.  Every change of letter
\* case is a chain of these, and the inputs range over all strings, so a property of
\* search that no single change breaks is broken by no change of case.
CaseFlips(s) == {[s EXCEPT ![i] = SwapCase(s[i])] : i \in 1..Len(s)}

RECURSIVE Ascending(_)
Ascending(S) ==
    IF S = {} THEN <<>>
    ELSE LET m == CHOOSE x \in S : \A y \in S : x <= y
         IN <<m>> \o Ascending(S \ {m})

\* match_line's verdict on line n of the contents, under the configuration in use.
LineMatches(n) ==
    match_line(Lines(contents)[n], ProcessedQuery(query, config), config).val

Inverted(cfg) == [cfg EXCEPT !.invert_match = ~cfg.invert_match]

SearchCalled == searchRet # NotCalled

MatchCalled == matchRet # NotCalled

C4_InversionLaw ==
    (SearchCalled /\ searchRet.ok) =>
        LET all == 1..Len(Lines(contents))
            here == SelectedPositions(query, contents, config)
            there == SelectedPositions(query, contents, Inverted(config))
            other == search(query, contents, Inverted(config))
        IN /\ here \cap there = {}
           /\ here \cup there = all
           /\ \A n \in all : (n \in here) <=> (LineMatches(n) # config.invert_match)
           /\ other.ok
           /\ Len(searchRet.val) = Cardinality(here)
           /\ Len(other.val) = Cardinality(there)

C4_Witness ==
    /\ SearchCalled
    /\ searchRet.ok
    /\ config.invert_match
    /\ Len(Lines(contents)) = 2
    /\ Len(searchRet.val) = 1
    /\ SelectedPositions(query, contents, config) = {2}

(***************************************************************************)
(* C5: a successful search returns the selected lines in ascending order   *)
(* of their position in contents, each as "{n}:{line}" with n the 1-based  *)
(* position in contents when line_number is set, and as the bare line      *)
(* otherwise.                                                              *)
(***************************************************************************)
C5_OrderedNumberedOutput ==
    (SearchCalled /\ searchRet.ok) =>
        LET ls == Lines(contents)
            pos == Ascending({n \in 1..Len(ls) : LineMatches(n) # config.invert_match})
        IN /\ Len(searchRet.val) = Len(pos)
           /\ \A i \in 1..Len(pos) :
                searchRet.val[i] = IF config.line_number
                                   THEN ToDecimal(pos[i]) \o <<":">> \o ls[pos[i]]
                                   ELSE ls[pos[i]]

C5_Witness ==
    /\ SearchCalled
    /\ searchRet.ok
    /\ config.line_number
    /\ Len(Lines(contents)) = 2
    /\ Len(searchRet.val) = 1
    /\ Head(searchRet.val[1]) = "2"

(***************************************************************************)
(* C6 as stated: with whole_word set and a query of word characters only,  *)
(* match_line returns true exactly when the line holds an occurrence of    *)
(* the query with no word character right before or after it, whether      *)
(* regex is set or not.                                                    *)
(***************************************************************************)
C6_AsStated ==
    (MatchCalled /\ config.whole_word /\ IsWordOnly(query)) =>
        /\ matchRet.ok
        /\ matchRet.val = WholeWordOccurs(line, query)
        /\ matchRet = match_line(line, query, [config EXCEPT !.regex = ~config.regex])

(***************************************************************************)
(* C6 amended: with whole_word set and a non-empty query of word           *)
(* characters only, match_line returns true exactly when the text it       *)
(* compares (the line, lower-cased when ignore_case is set) holds an       *)
(* occurrence of the query with no word character right before or after    *)
(* it, whether regex is set or not.                                        *)
(***************************************************************************)
C6_WholeWordBoundary ==
    (MatchCalled /\ config.whole_word /\ IsWordOnly(query) /\ query # <<>>) =>
        /\ matchRet.ok
        /\ matchRet.val =
             WholeWordOccurs(IF config.ignore_case THEN to_lowercase(line) ELSE line, query)
        /\ matchRet = match_line(line, query, [config EXCEPT !.regex = ~config.regex])

C6_Witness ==
    /\ MatchCalled
    /\ config.whole_word
    /\ ~config.regex
    /\ query = <<"a">>
    /\ line = <<".", "a", ".">>
    /\ matchRet = Ok(TRUE)

(***************************************************************************)
(* C7: with ignore_case set, search selects the positions that a           *)
(* case-sensitive search of the lower-cased contents for the lower-cased   *)
(* query selects; no change of letter case in the query or in the contents *)
(* changes the selected positions or the outcome; and every returned text  *)
(* is the original line, casing unchanged.                                 *)
(***************************************************************************)
C7_CaseInsensitive ==
    (SearchCalled /\ config.ignore_case) =>
        LET sensitive == [config EXCEPT !.ignore_case = FALSE]
            plain == [config EXCEPT !.line_number = FALSE]
            ls == Lines(contents)
            here == SelectedPositions(query, contents, config)
            pos == Ascending(here)
        IN /\ here = SelectedPositions(to_lowercase(query), to_lowercase(contents),
                                       sensitive)
           /\ searchRet.ok = search(to_lowercase(query), to_lowercase(contents),
                                    sensitive).ok
           /\ \A q \in CaseFlips(query) : SelectedPositions(q, contents, config) = here
           /\ \A c \in CaseFlips(contents) : SelectedPositions(query, c, config) = here
           /\ searchRet.ok =>
                /\ Len(searchRet.val) = Len(pos)
                /\ search(query, contents, plain).val = [i \in 1..Len(pos) |-> ls[pos[i]]]

C7_Witness ==
    /\ SearchCalled
    /\ config.ignore_case
    /\ ~config.line_number
    /\ ~config.invert_match
    /\ query = <<"A", "a">>
    /\ contents = <<"a", "A", "a">>
    /\ searchRet = Ok(<<contents>>)

\* The entries the buffer must hold when reporting starts: one per file of `files`
\* whose search_in_file returns Ok with a non-empty list, carrying that list.
ExpectedEntries ==
    LET res(k) == search_in_file(root.entries[files[k]], query, config)
    IN {<<files[k], res(k).val>> : k \in {j \in 1..Len(files) : res(j).ok /\ res(j).val # <<>>}}

(***************************************************************************)
(* C1: under every interleaving of the workers the buffer never holds a    *)
(* partial or duplicated entry or an entry of a file whose read or search  *)
(* failed or found nothing, and from the moment reporting starts it holds  *)
(* exactly one entry, with the complete match list, for each file whose    *)
(* search_in_file succeeded with a non-empty result: a set fixed by the    *)
(* files, the query and the configuration alone.                           *)
(***************************************************************************)
C1_BufferExact ==
    /\ \A i \in 1..Len(buffer) : buffer[i] \in ExpectedEntries
    /\ \A i, j \in 1..Len(buffer) : i # j => buffer[i][1] # buffer[j][1]
    /\ (root.kind = "dir" /\ mainPc \in {"drain", "done"}) =>
          {buffer[i] : i \in 1..Len(buffer)} = ExpectedEntries

C1_Witness ==
    /\ mainPc = "drain"
    /\ Len(files) = 2
    /\ Len(buffer) = 2
    /\ buffer[1][1] = files[2]
    /\ buffer[2][1] = files[1]

(***************************************************************************)
(* C3 as stated: when run is invoked with regex set and a query that does  *)
(* not compile, on a regular file or on a directory with an eligible file  *)
(* that can be read, it returns an error.                                  *)
(***************************************************************************)
C3_AsStated ==
    (/\ mainPc = "done"
     /\ config.regex
     /\ ~RegexNew(query).ok
     /\ \/ root.kind = "file"
        \/ /\ root.kind = "dir"
           /\ \E k \in 1..Len(files) : root.entries[files[k]].readOk)
        => runRet = "Err"

(***************************************************************************)
(* C8 as stated: no file dispatched to the workers is larger than 10 MiB   *)
(* or has a NUL byte in its first 1024 bytes; a file of exactly 10 MiB, or *)
(* one whose NUL bytes all lie after the first 1024, is not excluded by    *)
(* this filter.                                                            *)
(***************************************************************************)
C8_AsStated ==
    (root.kind = "dir" /\ mainPc # "start") =>
        /\ \A k \in 1..Len(files) :
             LET e == root.entries[files[k]]
             IN e.size <= SizeLimit /\ e.firstNul \notin 1..PrefixLen
        /\ \A i \in 1..Len(root.entries) :
             LET e == root.entries[i]
             IN (/\ e.type = "file"
                 /\ filter_entry(e)
                 /\ e.metaOk
                 /\ e.openOk
                 /\ e.size <= SizeLimit
                 /\ e.firstNul \notin 1..PrefixLen)
                    => \E k \in 1..Len(files) : files[k] = i

(***************************************************************************)
(* C9 as stated: a file whose metadata query fails, or whose open or read  *)
(* of the prefix fails, is not eligible, and such a failure never makes    *)
(* search_recursive fail.                                                  *)
(***************************************************************************)
C9_AsStated ==
    (root.kind = "dir" /\ mainPc # "start") =>
        /\ \A k \in 1..Len(files) :
             LET e == root.entries[files[k]]
             IN e.metaOk /\ e.openOk /\ should_search_file(e)
        /\ mainPc = "done" => runRet = "Ok"

(***************************************************************************)
(* C10: at most one thread holds the lock of the buffer; a worker holds it *)
(* only while it pushes its finished entry, never while it reads, matches  *)
(* or formats; the calling thread holds it only for the drain, after all   *)
(* workers have completed; and a step of a worker changes no shared state  *)
(* but the buffer, which changes only by the lock holder appending its     *)
(* entry.                                                                  *)
(***************************************************************************)
C10_LockState ==
    /\ Cardinality(holders) <= 1
    /\ \A w \in Workers : w \in holders <=> workerPc[w] = "push"
    /\ MainThread \in holders => (mainPc = "drain" /\ AllWorkersDone)

C10_WorkerStepEffect ==
    /\ WorkerStep => UNCHANGED <<query, config, root, files, output, runRet, mainPc>>
    /\ buffer' # buffer =>
          \E w \in Workers :
              /\ holders = {w}
              /\ buffer' = Append(buffer, <<files[cur[w]], local[w]>>)

C10_LockDiscipline == []C10_LockState /\ [][C10_WorkerStepEffect]_vars

C10_Witness ==
    \E w1, w2 \in Workers :
        /\ holders = {w1}
        /\ workerPc[w1] = "push"
        /\ workerPc[w2] = "search"

====
